---- MODULE Spec2Model ----
(***************************************************************************)
(* Model of the memory API (src/memory_api.py) and its client              *)
(* (src/memory_client.py).                                                 *)
(*                                                                         *)
(* The server is a FastAPI application whose synchronous endpoints run on  *)
(* request threads.  Every call of init_db, add_memory and get_memories    *)
(* opens its own sqlite3 connection, runs one statement inside             *)
(* `with conn:` and closes the connection afterwards.  The database file   *)
(* is shared; SQLite lets one connection at a time hold the write lock.    *)
(*                                                                         *)
(* A request thread walks through                                          *)
(*    idle -> connect -> execute -> commit -> close -> done                *)
(* (a read and init_db have nothing to commit and skip "commit").  A       *)
(* storage failure at any of these steps raises out of the function; the   *)
(* endpoint turns it into an HTTP 500.                                     *)
(***************************************************************************)
EXTENDS Integers, Sequences, FiniteSets, TLC

\* ------------------------------------------------------------------ bounds

\* The table never holds more than MaxRows rows in the model.
MaxRows == 2

\* Request threads of the server.
Workers == {"w1", "w2"}

\* Strings a client may send as user_id / as message.  The empty string is a
\* string like any other for the code.
UserIds == {"", "alice"}
Messages == {"", "Hello world"}

\* Microsecond readings of the clock, datetime.utcnow(): the clock may return
\* the same reading twice and may go backwards.
Clock == {0, 1}

NoWorker == "none"

VARIABLES
    tables,     \* names of the tables the database file holds
    table,      \* committed rows of table memories: [id, user_id, timestamp, message]
    lock,       \* the connection (by worker) holding SQLite's write lock
    pc,         \* per worker: position in the request
    op,         \* per worker: "store", "get", "init" or "none"
    req,        \* per worker: the request as received (a JSON object / query)
    conn,       \* per worker: the call's local `conn`: "none", "open", "closed"
    txn,        \* per worker: rows inserted by the open transaction, uncommitted
    exc,        \* per worker: the exception raised by the store call, or "none"
    result,     \* per worker: the rows fetched by get_memories
    response,   \* per worker: the HTTP response of the finished request
    appended,   \* history: per user_id, the texts of committed appends, in order
    acked,      \* history: number of store requests answered with success
    call,       \* client: the MemoryClient method called last
    http,       \* client: the HTTP response that call received
    returned    \* client: what the call returned or raised

vars == <<tables, table, lock, pc, op, req, conn, txn, exc, result, response,
          appended, acked, call, http, returned>>

serverVars == <<tables, table, lock, pc, op, req, conn, txn, exc, result, response,
                appended, acked>>

clientVars == <<call, http, returned>>

\* ------------------------------------------------------------ values

\* datetime.isoformat(): the fraction is printed only when it is not zero.
isoformat(us) ==
    IF us = 0 THEN "2024-01-01T00:00:00" ELSE "2024-01-01T00:00:00.000001"

Timestamps == {isoformat(us) : us \in Clock}

Row(id, u, ts, m) == [id |-> id, user_id |-> u, timestamp |-> ts, message |-> m]

NoResponse == [status |-> 0]

\* JSON objects with the keys D, values drawn per key.
StoreBodies ==
    UNION {[D -> UserIds \cup Messages] : D \in SUBSET {"user_id", "message"}}

\* A POST /store_memory body: any JSON object over the two fields, each
\* present or absent.
StoreRequests ==
    {b \in StoreBodies :
        /\ ("user_id" \in DOMAIN b => b["user_id"] \in UserIds)
        /\ ("message" \in DOMAIN b => b["message"] \in Messages)}

\* A GET /get_memory query string: user_id present or absent.
GetRequests == UNION {[D -> UserIds] : D \in SUBSET {"user_id"}}

NoRequest == [x \in {} |-> ""]

Max(S) == CHOOSE x \in S : \A y \in S : y <= x

\* ------------------------------------------------- the store (memory_api.py)

\* Variant of MemoryRecord: message declared optional, so that a body
\* without it passes validation.
MemoryRecord_OptionalMessage(body) == "user_id" \in DOMAIN body

\* class MemoryRecord(BaseModel): user_id: str, message: str.  Both fields
\* are required; any string, the empty one included, is a valid value.
MemoryRecord(body) == {"user_id", "message"} \subseteq DOMAIN body

\* def get_memory(user_id: str): the query parameter is required.
GetQuery(q) == "user_id" \in DOMAIN q

\* Variant of CreateTable: CREATE TABLE without IF NOT EXISTS, which is an
\* error when the table exists.
CreateTable_NoIfNotExists(ts, rows) ==
    IF "memories" \in ts
    THEN [tables |-> ts, rows |-> rows, error |-> "table memories already exists"]
    ELSE [tables |-> ts \cup {"memories"}, rows |-> {}, error |-> "none"]

\* CREATE TABLE IF NOT EXISTS memories (...): the tables and the rows after
\* the statement.  An existing table is left as it is.
CreateTable(ts, rows) ==
    IF "memories" \in ts
    THEN [tables |-> ts, rows |-> rows, error |-> "none"]
    ELSE [tables |-> ts \cup {"memories"}, rows |-> {}, error |-> "none"]

\* id INTEGER PRIMARY KEY AUTOINCREMENT: one more than the largest id of the
\* whole table (rows are never deleted, so this is also sqlite_sequence + 1).
NextRowId(rows) ==
    IF rows = {} THEN 1 ELSE Max({r.id : r \in rows}) + 1

\* INSERT INTO memories (user_id, timestamp, message) VALUES (?, ?, ?) with
\* (user_id, datetime.utcnow().isoformat(), message): the row inserted.
InsertRow(rows, user_id, us, message) ==
    Row(NextRowId(rows), user_id, isoformat(us), message)

\* ... ORDER BY id ASC
RECURSIVE OrderById(_)
OrderById(rows) ==
    IF rows = {} THEN <<>>
    ELSE LET r == CHOOSE r \in rows : \A q \in rows : r.id <= q.id
         IN  <<r>> \o OrderById(rows \ {r})

\* The clock reading a stored timestamp was printed from.
TsRank(ts) == CHOOSE us \in Clock : isoformat(us) = ts

\* ... ORDER BY timestamp ASC (rows of equal timestamp by id)
RECURSIVE OrderByTimestamp(_)
OrderByTimestamp(rows) ==
    IF rows = {} THEN <<>>
    ELSE LET r == CHOOSE r \in rows : \A q \in rows :
                      \/ TsRank(r.timestamp) < TsRank(q.timestamp)
                      \/ TsRank(r.timestamp) = TsRank(q.timestamp) /\ r.id <= q.id
         IN  <<r>> \o OrderByTimestamp(rows \ {r})

\* Variant of SelectByUser: ordered by timestamp, as the docstring of
\* get_memories words it, instead of by id.
SelectByUser_OrderByTimestamp(rows, user_id) ==
    OrderByTimestamp({r \in rows : r.user_id = user_id})

\* Variant of SelectByUser: the WHERE clause left out.
SelectByUser_NoWhere(rows, user_id) == OrderById(rows)

\* SELECT timestamp, message FROM memories WHERE user_id = ? ORDER BY id ASC
SelectByUser(rows, user_id) ==
    OrderById({r \in rows : r.user_id = user_id})

\* get_memories: the fetched rows as {"timestamp", "message"} dictionaries.
get_memories(rows, user_id) ==
    LET sel == SelectByUser(rows, user_id)
    IN  [i \in 1..Len(sel) |->
            [timestamp |-> sel[i].timestamp, message |-> sel[i].message]]

\* Variant of WriteLockFree: the insert does not wait for the write lock
\* (the id computed and the row written outside a transaction).
WriteLockIgnored(l) == TRUE

\* An INSERT opens a transaction and takes SQLite's write lock: it goes
\* ahead only while no other connection holds it.
WriteLockFree(l) == l = NoWorker

\* Variant of CommitRows: INSERT OR REPLACE keyed by user_id, which keeps
\* only the newest row of a user.
CommitRows_Replace(rows, pending) ==
    pending \cup {r \in rows : \A p \in pending : r.user_id # p.user_id}

\* `with conn:` left without an exception: the transaction is committed.
CommitRows(rows, pending) == rows \cup pending

\* ------------------------------------------------ the service (endpoints)

\* FastAPI's answer to a request that fails validation.
ValidationError == [status |-> 422, body |-> [detail |-> "field required"]]

\* raise HTTPException(status_code=500, detail=str(e))
InternalError(e) == [status |-> 500, body |-> [detail |-> e]]

\* Variant of store_memory: the exception of add_memory swallowed.
store_memory_swallow(e) ==
    [status |-> 200, body |-> [status |-> "success", message |-> "Memory stored"]]

\* store_memory: return {"status": "success", "message": "Memory stored"}
store_memory(e) ==
    IF e # "none" THEN InternalError(e)
    ELSE [status |-> 200,
          body |-> [status |-> "success", message |-> "Memory stored"]]

\* Variant of get_memory: an unknown key answered 404.
get_memory_404(user_id, memories, e) ==
    IF e # "none" THEN InternalError(e)
    ELSE IF memories = <<>>
         THEN [status |-> 404, body |-> [detail |-> "No memories found"]]
         ELSE [status |-> 200,
               body |-> [user_id |-> user_id, memories |-> memories]]

\* get_memory: return {"user_id": user_id, "memories": memories}
get_memory(user_id, memories, e) ==
    IF e # "none" THEN InternalError(e)
    ELSE [status |-> 200,
          body |-> [user_id |-> user_id, memories |-> memories]]

\* The response of worker w's request when its store call ended with e.
\* init_db is no endpoint: it answers nothing.
Respond(w, e) ==
    CASE op[w] = "store" -> store_memory(e)
      [] op[w] = "get"   -> get_memory(req[w]["user_id"], result[w], e)
      [] OTHER           -> NoResponse

\* ----------------------------------------------------------------- Init

NoClientCall == [status |-> 0]

Init ==
    /\ tables = {"memories"}          \* init_db() ran on import
    /\ table = {}
    /\ lock = NoWorker
    /\ pc = [w \in Workers |-> "idle"]
    /\ op = [w \in Workers |-> "none"]
    /\ req = [w \in Workers |-> NoRequest]
    /\ conn = [w \in Workers |-> "none"]
    /\ txn = [w \in Workers |-> {}]
    /\ exc = [w \in Workers |-> "none"]
    /\ result = [w \in Workers |-> <<>>]
    /\ response = [w \in Workers |-> NoResponse]
    /\ appended = [u \in UserIds |-> <<>>]
    /\ acked = 0
    /\ call = "none"
    /\ http = NoClientCall
    /\ returned = [kind |-> "none"]

\* -------------------------------------------------------------- requests

\* A request thread is free once its last request is answered.
Free(w) == pc[w] \in {"idle", "done"}

\* Appends accepted and not yet committed or failed.
InFlight == {v \in Workers : op[v] = "store" /\ pc[v] \in {"connect", "execute", "commit"}}

Begin(w, o, r, valid) ==
    /\ op' = [op EXCEPT ![w] = o]
    /\ req' = [req EXCEPT ![w] = r]
    /\ conn' = [conn EXCEPT ![w] = "none"]
    /\ exc' = [exc EXCEPT ![w] = "none"]
    /\ result' = [result EXCEPT ![w] = <<>>]
    /\ pc' = [pc EXCEPT ![w] = IF valid THEN "connect" ELSE "done"]
    /\ response' = [response EXCEPT ![w] = IF valid THEN NoResponse ELSE ValidationError]
    /\ UNCHANGED <<tables, table, lock, txn, appended, acked, clientVars>>

\* POST /store_memory with body: validated as a MemoryRecord, then store_memory.
ReceiveStore(w, body) ==
    /\ Free(w)
    /\ MemoryRecord(body) => Cardinality(table) + Cardinality(InFlight) < MaxRows
    /\ Begin(w, "store", body, MemoryRecord(body))

\* GET /get_memory with query q.
ReceiveGet(w, q) ==
    /\ Free(w)
    /\ Begin(w, "get", q, GetQuery(q))

\* init_db() called again (another process start on the same file).
StartInit(w) ==
    /\ Free(w)
    /\ Begin(w, "init", NoRequest, TRUE)

\* An exception e leaves the store call: the endpoint answers.  conn.close()
\* is the statement after the `with` block and is not reached.
Raise(w, e) ==
    /\ exc' = [exc EXCEPT ![w] = e]
    /\ pc' = [pc EXCEPT ![w] = "done"]
    /\ response' = [response EXCEPT ![w] = Respond(w, e)]
    /\ result' = [result EXCEPT ![w] = <<>>]

\* conn = sqlite3.connect(db_path)
Connect(w) ==
    /\ pc[w] = "connect"
    /\ conn' = [conn EXCEPT ![w] = "open"]
    /\ pc' = [pc EXCEPT ![w] = "execute"]
    /\ UNCHANGED <<tables, table, lock, op, req, txn, exc, result, response,
                   appended, acked, clientVars>>

\* sqlite3.connect raises: no connection was opened.
ConnectFail(w) ==
    /\ pc[w] = "connect"
    /\ Raise(w, "unable to open database file")
    /\ UNCHANGED <<tables, table, lock, op, req, conn, txn, appended, acked, clientVars>>

\* add_memory: conn.execute("INSERT ...") opens a transaction, takes the
\* write lock and inserts the row; the clock is read for the timestamp.
ExecuteInsert(w, us) ==
    /\ pc[w] = "execute" /\ op[w] = "store"
    /\ WriteLockFree(lock)
    /\ lock' = w
    /\ txn' = [txn EXCEPT ![w] =
                 {InsertRow(table, req[w]["user_id"], us, req[w]["message"])}]
    /\ pc' = [pc EXCEPT ![w] = "commit"]
    /\ UNCHANGED <<tables, table, op, req, conn, exc, result, response,
                   appended, acked, clientVars>>

\* get_memories: conn.execute("SELECT ...") and cursor.fetchall(); leaving
\* the `with` block has nothing to commit.
ExecuteSelect(w) ==
    /\ pc[w] = "execute" /\ op[w] = "get"
    /\ result' = [result EXCEPT ![w] = get_memories(table, req[w]["user_id"])]
    /\ pc' = [pc EXCEPT ![w] = "close"]
    /\ UNCHANGED <<tables, table, lock, op, req, conn, txn, exc, response,
                   appended, acked, clientVars>>

\* init_db: conn.execute("CREATE TABLE IF NOT EXISTS ...").  Creating the
\* table writes and needs the write lock; finding it needs none.
ExecuteCreate(w) ==
    /\ pc[w] = "execute" /\ op[w] = "init"
    /\ "memories" \in tables \/ WriteLockFree(lock)
    /\ LET st == CreateTable(tables, table)
       IN  IF st.error = "none"
           THEN /\ tables' = st.tables
                /\ table' = st.rows
                /\ pc' = [pc EXCEPT ![w] = "close"]
                /\ UNCHANGED <<exc, result, response>>
           ELSE /\ Raise(w, st.error)
                /\ UNCHANGED <<tables, table>>
    /\ UNCHANGED <<lock, op, req, conn, txn, appended, acked, clientVars>>

\* conn.execute raises: the medium fails, or (an INSERT) another connection
\* holds the write lock until the busy timeout.  The statement did nothing.
ExecuteFail(w, e) ==
    /\ pc[w] = "execute"
    /\ \/ e = "disk I/O error"
       \/ e = "database is locked" /\ op[w] = "store" /\ lock \notin {NoWorker, w}
    /\ Raise(w, e)
    /\ UNCHANGED <<tables, table, lock, op, req, conn, txn, appended, acked, clientVars>>

\* add_memory leaves `with conn:`: the row is committed, the lock released.
Commit(w) ==
    /\ pc[w] = "commit"
    /\ table' = CommitRows(table, txn[w])
    /\ appended' = [appended EXCEPT ![req[w]["user_id"]] = Append(@, req[w]["message"])]
    /\ txn' = [txn EXCEPT ![w] = {}]
    /\ lock' = NoWorker
    /\ pc' = [pc EXCEPT ![w] = "close"]
    /\ UNCHANGED <<tables, op, req, conn, exc, result, response, acked, clientVars>>

\* The commit raises (disk full): nothing is written, and the transaction
\* is rolled back as the exception leaves add_memory (by the context manager
\* or, in older interpreters, when the frame's connection object is dropped).
CommitFail(w) ==
    /\ pc[w] = "commit"
    /\ txn' = [txn EXCEPT ![w] = {}]
    /\ lock' = NoWorker
    /\ Raise(w, "disk I/O error")
    /\ UNCHANGED <<tables, table, op, req, conn, appended, acked, clientVars>>

\* conn.close(), then the function and the endpoint return.
Close(w) ==
    /\ pc[w] = "close"
    /\ conn' = [conn EXCEPT ![w] = "closed"]
    /\ pc' = [pc EXCEPT ![w] = "done"]
    /\ response' = [response EXCEPT ![w] = Respond(w, "none")]
    /\ result' = [result EXCEPT ![w] = <<>>]
    /\ acked' = IF op[w] = "store" THEN acked + 1 ELSE acked
    /\ UNCHANGED <<tables, table, lock, op, req, txn, exc, appended, clientVars>>

Next ==
    \/ \E w \in Workers, body \in StoreRequests : ReceiveStore(w, body)
    \/ \E w \in Workers, q \in GetRequests : ReceiveGet(w, q)
    \/ \E w \in Workers : StartInit(w)
    \/ \E w \in Workers : Connect(w)
    \/ \E w \in Workers : ConnectFail(w)
    \/ \E w \in Workers, us \in Clock : ExecuteInsert(w, us)
    \/ \E w \in Workers : ExecuteSelect(w)
    \/ \E w \in Workers : ExecuteCreate(w)
    \/ \E w \in Workers, e \in {"disk I/O error", "database is locked"} : ExecuteFail(w, e)
    \/ \E w \in Workers : Commit(w)
    \/ \E w \in Workers : CommitFail(w)
    \/ \E w \in Workers : Close(w)

Spec == Init /\ [][Next]_vars

\* -------------------------------------------- the client (memory_client.py)

\* What the server's get_memories can hold for one entry.
Entries == [timestamp : Timestamps, message : Messages]

\* Lists of at most n entries.
RECURSIVE EntryLists(_)
EntryLists(n) ==
    IF n = 0 THEN {<<>>}
    ELSE LET shorter == EntryLists(n - 1)
         IN  shorter \cup {Append(l, e) : l \in shorter, e \in Entries}

\* JSON objects a peer may answer with: the fields of the service's bodies,
\* each present or absent.
JsonObjects ==
    {NoRequest}
    \cup [user_id : UserIds]
    \cup [memories : EntryLists(MaxRows)]
    \cup [user_id : UserIds, memories : EntryLists(MaxRows)]
    \cup {[status |-> "success", message |-> "Memory stored"]}
    \cup {[detail |-> "disk I/O error"]}

\* Response bodies: text that is no JSON, JSON that is no object (an array),
\* or a JSON object.
HttpBodies ==
    {[kind |-> "text"], [kind |-> "array"]}
    \cup {[kind |-> "object", value |-> o] : o \in JsonObjects}

HttpResponses == [status : {200, 404, 422, 500}, body : HttpBodies]

\* response.raise_for_status(): HTTPError for a 4xx or 5xx status.
raise_for_status(r) == r.status >= 400 /\ r.status < 600

\* MemoryClient.store_memory: raise_for_status(), then return response.json().
client_store_memory(r) ==
    IF raise_for_status(r) THEN [kind |-> "raise", exc |-> "HTTPError"]
    ELSE IF r.body.kind = "text" THEN [kind |-> "raise", exc |-> "JSONDecodeError"]
    ELSE [kind |-> "return", value |-> r.body]

\* Variant of client_get_memory: data["memories"], a KeyError when the
\* entries list is missing.
client_get_memory_strict(r) ==
    IF raise_for_status(r) THEN [kind |-> "raise", exc |-> "HTTPError"]
    ELSE IF r.body.kind = "text" THEN [kind |-> "raise", exc |-> "JSONDecodeError"]
    ELSE IF r.body.kind # "object" THEN [kind |-> "raise", exc |-> "TypeError"]
    ELSE IF "memories" \in DOMAIN r.body.value
         THEN [kind |-> "return", value |-> r.body.value["memories"]]
         ELSE [kind |-> "raise", exc |-> "KeyError"]

\* MemoryClient.get_memory: raise_for_status(), data = response.json(),
\* return data.get("memories", []).
client_get_memory(r) ==
    IF raise_for_status(r) THEN [kind |-> "raise", exc |-> "HTTPError"]
    ELSE IF r.body.kind = "text" THEN [kind |-> "raise", exc |-> "JSONDecodeError"]
    ELSE IF r.body.kind # "object" THEN [kind |-> "raise", exc |-> "AttributeError"]
    ELSE IF "memories" \in DOMAIN r.body.value
         THEN [kind |-> "return", value |-> r.body.value["memories"]]
         ELSE [kind |-> "return", value |-> <<>>]

\* client.store_memory(...) whose request was answered with r.
ClientStoreMemory(r) ==
    /\ call' = "store_memory"
    /\ http' = r
    /\ returned' = client_store_memory(r)
    /\ UNCHANGED serverVars

\* client.get_memory(...) whose request was answered with r.
ClientGetMemory(r) ==
    /\ call' = "get_memory"
    /\ http' = r
    /\ returned' = client_get_memory(r)
    /\ UNCHANGED serverVars

ClientNext ==
    \/ \E r \in HttpResponses : ClientStoreMemory(r)
    \/ \E r \in HttpResponses : ClientGetMemory(r)

\* The client against any peer that answers with one of HttpResponses.
ClientSpec == Init /\ [][ClientNext]_vars

\* ---------------------------------------------------------- properties

IsPrefix(a, b) == Len(a) <= Len(b) /\ \A i \in 1..Len(a) : a[i] = b[i]

Texts(entries) == [i \in 1..Len(entries) |-> entries[i].message]

\* The request of w is a store request that went on to the store.
Stored(w) == op[w] = "store" /\ pc[w] = "done" /\ response[w].status = 200

\* The request of w is a read answered with success.
ReadOk(w) == op[w] = "get" /\ pc[w] = "done" /\ response[w].status = 200

C2_KeyIsolation ==
    [][table' # table =>
         \A u \in UserIds :
             get_memories(table', u) # get_memories(table, u)
                 => \E w \in Workers :
                       /\ pc[w] = "commit" /\ pc'[w] = "close"
                       /\ req[w]["user_id"] = u]_vars

\* Both keys hold an entry, and a read of one key was answered with that
\* key's entry alone.
C2_Witness ==
    \E w \in Workers :
        /\ ReadOk(w)
        /\ req[w]["user_id"] = "alice"
        /\ Len(response[w].body.memories) = 1
        /\ Texts(response[w].body.memories) = appended["alice"]
        /\ appended[""] # <<>>
        /\ appended[""] # appended["alice"]

\* C3 -- A failed store.  A store request whose storage call raised is
\* answered 500 with the diagnostic, never with the acknowledgment; the
\* step in which the call fails leaves the table as it was and keeps
\* nothing pending.
C3_FailedStore ==
    /\ [](\A w \in Workers :
            op[w] = "store" /\ exc[w] # "none"
                => /\ pc[w] = "done"
                   /\ response[w] = [status |-> 500, body |-> [detail |-> exc[w]]]
                   /\ txn[w] = {})
    /\ [][\A w \in Workers :
            op[w] = "store" /\ exc[w] = "none" /\ exc'[w] # "none"
                => table' = table /\ txn'[w] = {}]_vars

\* A store for a key failed, and a read of that key made while the failed
\* request is the thread's last was answered with no entry.
C3_Witness ==
    \E w, v \in Workers :
        /\ op[w] = "store" /\ pc[w] = "done" /\ exc[w] = "disk I/O error"
        /\ response[w].status = 500
        /\ ReadOk(v)
        /\ req[v]["user_id"] = req[w]["user_id"]
        /\ response[v].body.memories = <<>>
        /\ table = {}

\* A field of a store request that is absent, or the empty string.
Absent(body, f) == f \notin DOMAIN body

Empty(body, f) == f \in DOMAIN body /\ body[f] = ""

\* C4 as stated -- a store request in which a field is absent or is the
\* empty string is rejected as a client error and never reaches the store.
C4_Original ==
    \A w \in Workers :
        (op[w] = "store"
           /\ (\E f \in {"user_id", "message"} : Absent(req[w], f) \/ Empty(req[w], f)))
            => (/\ pc[w] = "done"
                /\ response[w] = ValidationError
                /\ conn[w] = "none")

\* C4 amended -- a store request is rejected as a client error, without
\* reaching the store, exactly when a field is absent; the empty string is
\* accepted like any other string; and every row that enters the table
\* carries the two fields of a request that passed validation.
C4_Amended ==
    /\ [](\A w \in Workers :
            op[w] = "store" =>
                IF \E f \in {"user_id", "message"} : Absent(req[w], f)
                THEN /\ pc[w] = "done"
                     /\ response[w] = ValidationError
                     /\ conn[w] = "none" /\ txn[w] = {}
                ELSE response[w] # ValidationError)
    /\ [][table' # table =>
            \E w \in Workers, r \in table' \ table :
                /\ op[w] = "store" /\ pc[w] = "commit"
                /\ MemoryRecord(req[w])
                /\ r.user_id = req[w]["user_id"] /\ r.message = req[w]["message"]
                /\ table' = table \cup {r}]_vars

\* One request without a message was rejected while a request with the
\* empty message was stored and acknowledged.
C4_Witness ==
    \E w, v \in Workers :
        /\ op[w] = "store" /\ Absent(req[w], "message")
        /\ response[w] = ValidationError
        /\ Stored(v) /\ Empty(req[v], "message")
        /\ \E r \in table : r.message = "" /\ r.user_id = req[v]["user_id"]

\* C5 -- Empty-key safety.  A read that met no storage failure, of a key
\* that holds no entry, is answered 200 with the key echoed and an empty
\* list.
C5_EmptyKey ==
    \A w \in Workers :
        (op[w] = "get" /\ pc[w] = "done" /\ GetQuery(req[w]) /\ exc[w] = "none"
           /\ get_memories(table, req[w]["user_id"]) = <<>>)
            => response[w] =
                 [status |-> 200,
                  body |-> [user_id |-> req[w]["user_id"], memories |-> <<>>]]

\* A key never written was read, with success, while the other key holds
\* entries.
C5_Witness ==
    \E w \in Workers :
        /\ ReadOk(w)
        /\ req[w]["user_id"] = "alice"
        /\ appended["alice"] = <<>>
        /\ appended[""] # <<>>
        /\ response[w].body.memories = <<>>

\* Failures of the storage medium, as opposed to errors of a statement.
MediumFailures == {"unable to open database file", "disk I/O error"}

\* C6 -- Idempotent initialization.  init_db, run at any point, never
\* raises on account of what the database holds (the medium failing is the
\* only way it ends with an error), and its statement leaves the tables,
\* the rows and the next id as they were.
C6_IdempotentInit ==
    /\ [](\A w \in Workers :
            op[w] = "init" => exc[w] \in {"none"} \cup MediumFailures)
    /\ [][\A w \in Workers :
            op[w] = "init" /\ pc[w] = "execute" /\ pc'[w] # "execute"
                => /\ tables' = tables /\ table' = table
                   /\ NextRowId(table') = NextRowId(table)
                   /\ (exc'[w] = "none" => pc'[w] = "close")
                   /\ exc'[w] \in {"none"} \cup MediumFailures]_vars

\* init_db ran to its end, without error, on a table that holds entries.
C6_Witness ==
    \E w \in Workers :
        /\ op[w] = "init" /\ pc[w] = "done" /\ exc[w] = "none"
        /\ conn[w] = "closed"
        /\ Cardinality(table) = MaxRows

\* Store requests committed whose acknowledgment is still to be returned.
Committed == {w \in Workers : op[w] = "store" /\ pc[w] = "close"}

\* C7 -- Concurrent appends.  Whatever the interleaving, ids are distinct;
\* the table holds one row per append acknowledged or committed and about
\* to be; and the table changes only by gaining one row whose id is one
\* more than the highest id of the whole table.
C7_ConcurrentAppends ==
    /\ [](/\ \A r, q \in table : r.id = q.id => r = q
          /\ Cardinality(table) = acked + Cardinality(Committed)
          /\ \A w \in Workers : Cardinality(txn[w]) <= 1)
    /\ [][table' # table =>
            \E r \in table' \ table :
                /\ table' = table \cup {r}
                /\ \A q \in table : q.id < r.id
                /\ r.id = NextRowId(table)]_vars

\* Two appends to different keys, handled by two threads, are committed
\* with ids 1 and 2: one is acknowledged, the other about to be.
C7_Witness ==
    \E w, v \in Workers :
        /\ Stored(w)
        /\ op[v] = "store" /\ pc[v] = "close"
        /\ req[w]["user_id"] # req[v]["user_id"]
        /\ {r.id : r \in table} = {1, 2}
        /\ {r.user_id : r \in table} = UserIds
        /\ acked = 1

\* C8 as stated -- get_memory returns a value only for a well formed
\* success response, one whose body is an object holding the entries list,
\* and raises for every other response.
C8_Original ==
    call = "get_memory" =>
        (returned.kind = "return" <=>
            /\ ~raise_for_status(http)
            /\ http.body.kind = "object"
            /\ "memories" \in DOMAIN http.body.value)

\* C8 amended -- get_memory raises exactly when the status is an error
\* status or the body is no JSON object; for a success response whose
\* object lacks the entries list it returns the empty list; otherwise it
\* returns the entries list alone, without the echoed key.
C8_Amended ==
    call = "get_memory" =>
        /\ returned.kind \in {"raise", "return"}
        /\ returned.kind = "raise" <=>
              (http.status \in {404, 422, 500} \/ http.body.kind # "object")
        /\ returned.kind = "return" =>
              returned.value =
                 IF "memories" \in DOMAIN http.body.value
                 THEN http.body.value["memories"] ELSE <<>>

\* A 200 response whose object holds the echoed key and no entries list:
\* get_memory returned the empty list.
C8_Witness ==
    /\ call = "get_memory"
    /\ http = [status |-> 200,
               body |-> [kind |-> "object", value |-> [user_id |-> "alice"]]]
    /\ returned = [kind |-> "return", value |-> <<>>]

\* C9 as stated -- when a store or read operation has ended, by return or
\* by raising, the connection it opened is no longer open.
C9_ConnectionReleased ==
    \A w \in Workers : pc[w] = "done" => conn[w] # "open"

\* C10 -- Immutable, append-only log.  No step removes or alters a row, and
\* what a read was answered with is a prefix of what a read of the same key
\* returns in any later state.
C10_AppendOnly ==
    /\ [][table \subseteq table']_vars
    /\ [](\A w \in Workers :
            ReadOk(w) => IsPrefix(response[w].body.memories,
                                  get_memories(table, req[w]["user_id"])))

\* A read was answered with one entry, and the key has gained a second
\* since: the earlier answer is a proper prefix of the present one.
C10_Witness ==
    \E w \in Workers :
        /\ ReadOk(w)
        /\ Len(response[w].body.memories) = 1
        /\ Len(get_memories(table, req[w]["user_id"])) = 2

====
